---- MODULE Spec2Model ----
(***************************************************************************)
(* Model of the CLIPCRAFT front end's job lifecycle controller: the React  *)
(* component App (frontend/src/App.tsx) and its earlier revision kept in   *)
(* the repository (src/unnamed/part_000).  The state is the component's    *)
(* useState cells, the polling interval owned by the poll effect, and the  *)
(* HTTP requests that are in flight.  Every step is one synchronous        *)
(* segment of a handler or callback (the code between two awaits) together *)
(* with the re-render and effect run that the segment's setState calls     *)
(* cause.                                                                  *)
(***************************************************************************)
EXTENDS Integers, FiniteSets, Sequences

VARIABLES
    build,        \* which revision of App.tsx is running
    youtubeUrl,   \* useState('')        App.tsx:10
    isProcessing, \* useState(false)     App.tsx:11
    jobId,        \* useState('')        App.tsx:12
    jobStatus,    \* useState(null)      App.tsx:13
    result,       \* useState(null)      App.tsx:14
    error,        \* useState('')        App.tsx:15
    isConnected,  \* useState(null)      App.tsx:16
    interval,     \* the job the poll effect's setInterval polls, or NoJob
    healthReqs,   \* health requests in flight
    submitReqs,   \* submission requests in flight: issued since / before the last reset
    statusReqs,   \* status requests in flight, per job and server state at issue
    resultReqs,   \* result requests in flight, per job
    server,       \* the state of each job as the server has reported it so far
    nSubmits,     \* submission requests issued so far
    nPolls,       \* status requests issued so far
    pollFailed,   \* jobs one of whose status requests failed at the transport level
    history,      \* whether the behaviour keeps pollFailed (a record of the past)
    clips,        \* VideoPreview props.clips: the array the caller holds
    received,     \* the clips in the order the server sent them
    viewMode,     \* useState('grid')    VideoPreview.tsx:36
    potential,    \* the last clip card evaluation of getViralPotential
    shortForm,    \* the short-form view as last computed
    highestEngagement, \* the highest-engagement view as last computed
    progresses,   \* the progress values the server's status answers may carry
    lastProgress, \* the progress displayed before the last status answer was applied
    downloadingClips,  \* useState(new Set())  VideoPreview.tsx:39
    batchDownloading,  \* useState(false)      VideoPreview.tsx:40
    copyingTimestamps, \* useState(false)      VideoPreview.tsx:41
    pending,      \* the export handlers suspended at an await, and what each awaits
    modal,        \* the alert() on screen and the handler that called it
    timers,       \* the setTimeout callbacks not yet run
    opened,       \* the links window.open was called with, in order
    clipboard,    \* the text navigator.clipboard holds
    now,          \* seconds on the clock the timers and the health interval run by
    nExports,     \* export handlers started so far
    selectedClip,    \* useState(null)       VideoPreview.tsx:37
    isPlayerVisible, \* useState(false)      VideoPreview.tsx:38
    youTubeLink   \* the last call of getYouTubeLink by a button of the player

appVars == <<history, build, youtubeUrl, isProcessing, jobId, jobStatus, result, error,
          isConnected, interval, healthReqs, submitReqs, statusReqs,
          resultReqs, server, nSubmits, nPolls, pollFailed, progresses,
          lastProgress>>

previewVars == <<clips, received, viewMode, potential, shortForm,
                 highestEngagement>>

playerVars == <<selectedClip, isPlayerVisible, youTubeLink>>

exportVars == <<downloadingClips, batchDownloading, copyingTimestamps, pending,
                modal, timers, opened, clipboard, now, nExports, playerVars>>

vars == <<appVars, previewVars, exportVars>>

---------------------------------------------------------------------------
(* Bounds of the model *)

\* submission requests issued in one behaviour (hence jobs created)
MaxSubmits == 2
\* status requests issued in one behaviour
MaxPolls == 2
\* export handlers started in one behaviour
MaxExports == 2

---------------------------------------------------------------------------
(* Values *)

Builds == {"App.tsx", "part_000"}

Jobs == 1..MaxSubmits
\* jobId '' (and the undefined job_id of a response that carries none)
NoJob == 0

\* A URL typed into the input, split at the places the patterns look at.
Url(scheme, host, path, id) ==
    [scheme |-> scheme, host |-> host, path |-> path, id |-> id]
EmptyUrl == Url("", "", "", "")
WatchUrl == Url("https", "www.youtube.com", "/watch?v=", "dQw4w9WgXcQ")
EmbedUrl == Url("https", "www.youtube.com", "/embed/", "dQw4w9WgXcQ")
InputUrls == {EmptyUrl, WatchUrl, EmbedUrl}

\* the URLs the patterns tell apart
Schemes == {"http", "https", "ftp"}
Hosts == {"youtube.com", "www.youtube.com", "m.youtube.com", "youtu.be",
          "www.youtu.be", "vimeo.com"}
Paths == {"/watch?v=", "/", "/embed/"}
Ids == {"", "dQw4w9WgXcQ"}
UrlGrid == {Url(s, h, p, i) : s \in Schemes, h \in Hosts, p \in Paths, i \in Ids}

NoStatus == [job_id |-> NoJob, status |-> "null", error_message |-> "", progress |-> 0]
NoResult == [kind |-> "null", job_id |-> NoJob]

\* the messages the component shows
MsgEnterUrl(b) == "Please enter a YouTube URL"
MsgInvalidUrl(b) ==
    IF b = "App.tsx"
    THEN "Please enter a valid YouTube URL (e.g., https://www.youtube.com/watch?v=...)"
    ELSE "Please enter a valid YouTube URL"
MsgBackendDown(b) ==
    IF b = "App.tsx"
    THEN "Backend server is not available. Please make sure the Python server is running on port 8001."
    ELSE "Backend server is not available. Please make sure the server is running."
MsgSubmitFailed(b) == "Failed to start processing"
MsgSubmitThrew(b) ==
    IF b = "App.tsx"
    THEN "Failed to connect to server. Please check if the backend is running."
    ELSE "Failed to start processing"
MsgJobFailed(b) ==
    IF b = "App.tsx" THEN "Processing failed unexpectedly" ELSE "Processing failed"
MsgPollThrew(b) ==
    IF b = "App.tsx"
    THEN "Lost connection to server. Please check if backend is running."
    ELSE "Failed to get processing status"
MsgResultThrew == "Failed to get processing results. Please try again."

\* the texts a server response may carry
SrvDetail == "server detail"
SrvMessage == "server message"
SrvErrorMessage == "server error_message"

\* the progress percentages a status answer may carry when the model tells
\* them apart
Progresses == {0, 40, 80}

\* the values jobStatus and result take besides null
JobStatuses ==
    [job_id : Jobs \cup {NoJob},
     status : {"processing", "completed", "failed", "undefined"},
     error_message : {"", SrvErrorMessage},
     progress : Progresses]
Results == [kind : {"payload"}, job_id : Jobs]

\* VideoPreview: no clip card has been evaluated; no view has been computed
NotEvaluated == [clip_id |-> 0, value |-> 0, n |-> 0]
NotComputed == [computed |-> FALSE, items |-> <<>>]

\* VideoPreview: no alert() is on screen; Alert is the one showing text,
\* with chars characters of timestamp text in it, called by the handler op
\* (of clip clip_id, of batch export number batch), which resumes when the
\* alert is dismissed
NoAlert == [text |-> "", chars |-> 0, op |-> "none", clip_id |-> 0, batch |-> 0]
Alert(text, chars, op, clip_id, batch) ==
    [text |-> text, chars |-> chars, op |-> op, clip_id |-> clip_id, batch |-> batch]

\* VideoPreview: selectedClip null.  Of the clip that is selected the
\* player reads its identifier and its start_time, a number of seconds that
\* the model counts in thousandths.
NoClip == [clip_id |-> 0, start_time |-> 0]
\* a link without the parameter t
NoOffset == -1
\* a link: the URL and the whole seconds of its parameter t
Href(url, t) == [url |-> url, t |-> t]
\* getYouTubeLink has not been called by a button of the player
NoLink == [called |-> FALSE, use |-> "none", youtubeUrl |-> EmptyUrl, startTime |-> 0,
           href |-> Href(EmptyUrl, NoOffset)]

\* VideoPreview as mounted: the state cells and what the export handlers
\* act on
ExportIdle ==
    /\ downloadingClips = {}
    /\ batchDownloading = FALSE
    /\ copyingTimestamps = FALSE
    /\ pending = {}
    /\ modal = NoAlert
    /\ timers = {}
    /\ opened = <<>>
    /\ clipboard = "none"
    /\ now = 0
    /\ nExports = 0
    /\ selectedClip = NoClip
    /\ isPlayerVisible = FALSE
    /\ youTubeLink = NoLink

---------------------------------------------------------------------------
(* isValidYouTubeUrl *)

HttpScheme(u) == u.scheme \in {"http", "https"}

\* /^https?:\/\/(www\.)?youtube\.com\/watch\?v=[\w-]+/
PatternWatch(u) ==
    /\ HttpScheme(u)
    /\ u.host \in {"youtube.com", "www.youtube.com"}
    /\ u.path = "/watch?v="
    /\ u.id # ""

\* /^https?:\/\/(www\.)?youtu\.be\/[\w-]+/ : the first path segment is the
\* word run; "/watch?v=" and "/embed/" begin with one themselves
PatternShort(u) ==
    /\ HttpScheme(u)
    /\ u.host \in {"youtu.be", "www.youtu.be"}
    /\ \/ u.path \in {"/watch?v=", "/embed/"}
       \/ u.path = "/" /\ u.id # ""

\* /^https?:\/\/(m\.)?youtube\.com\/watch\?v=[\w-]+/
PatternMobile(u) ==
    /\ HttpScheme(u)
    /\ u.host \in {"youtube.com", "m.youtube.com"}
    /\ u.path = "/watch?v="
    /\ u.id # ""

isValidYouTubeUrl(b, u) ==
    IF b = "App.tsx"
    THEN PatternWatch(u) \/ PatternShort(u) \/ PatternMobile(u)
    ELSE PatternWatch(u) \/ PatternShort(u)

\* /^https?:\/\/(www\.)?youtube\.com\/embed\/[\w-]+/
PatternEmbed(u) ==
    /\ HttpScheme(u)
    /\ u.host \in {"youtube.com", "www.youtube.com"}
    /\ u.path = "/embed/"
    /\ u.id # ""

\* the helper services/api.ts exports; App does not call it
apiIsValidYouTubeUrl(u) ==
    PatternWatch(u) \/ PatternShort(u) \/ PatternEmbed(u) \/ PatternMobile(u)

---------------------------------------------------------------------------
(* The poll effect and the controls' guards *)

\* useEffect(..., [jobId, isProcessing]): an interval runs for jobId exactly
\* while jobId is truthy and isProcessing is set; the cleanup clears it.
PollEffect(j, p) == IF j # NoJob /\ p THEN j ELSE NoJob

\* <input disabled={isProcessing || isConnected === false}>
InputEnabled == ~isProcessing /\ isConnected # "false"

\* <button type="submit" disabled={...}>
SubmitEnabled(b, u, p, c) ==
    IF b = "App.tsx"
    THEN ~(p \/ u = EmptyUrl \/ c = "false" \/ ~isValidYouTubeUrl(b, u))
    ELSE ~(p \/ u = EmptyUrl \/ c = "false")

\* {(jobId || error || result) && <button onClick={resetForm}>}
ResetVisible(b, j, e, r) ==
    IF b = "App.tsx"
    THEN j # NoJob \/ e # "" \/ r # NoResult
    ELSE j # NoJob \/ e # ""

---------------------------------------------------------------------------
(* Requests in flight *)

SubmitTags == {"sinceReset", "beforeReset"}

StatusReqKinds ==
    [job_id : Jobs, seen : {"processing", "completed", "failed"}]

Inc(f, x) == [f EXCEPT ![x] = @ + 1]
Dec(f, x) == [f EXCEPT ![x] = @ - 1]

\* status requests in flight for job j
StatusInFlight(j) ==
    statusReqs[[job_id |-> j, seen |-> "processing"]]
    + statusReqs[[job_id |-> j, seen |-> "completed"]]
    + statusReqs[[job_id |-> j, seen |-> "failed"]]

---------------------------------------------------------------------------
\* the component as mounted; h is whether pollFailed is kept
InitState(h) ==
    /\ build \in Builds
    /\ youtubeUrl = EmptyUrl
    /\ isProcessing = FALSE
    /\ jobId = NoJob
    /\ jobStatus = NoStatus
    /\ result = NoResult
    /\ error = ""
    /\ isConnected = "null"
    /\ interval = NoJob
    /\ healthReqs = 1
    /\ submitReqs = [sinceReset |-> 0, beforeReset |-> 0]
    /\ statusReqs = [k \in StatusReqKinds |-> 0]
    /\ resultReqs = [j \in Jobs |-> 0]
    /\ server = [j \in Jobs |-> "none"]
    /\ nSubmits = 0
    /\ nPolls = 0
    /\ pollFailed = {}
    /\ history = h
    /\ progresses = {0}
    /\ lastProgress = 0
    /\ ExportIdle
    /\ clips = <<>>
    /\ received = <<>>
    /\ viewMode = "grid"
    /\ potential = NotEvaluated
    /\ shortForm = NotComputed
    /\ highestEngagement = NotComputed

Init == InitState(FALSE)


---------------------------------------------------------------------------
(* The server *)

\* POST /api/process-video creates the next job
NextJob == CHOOSE j \in Jobs : server[j] = "none" /\ \A i \in Jobs : i < j => server[i] # "none"

\* The server alone knows a job's state; the client learns it from the
\* answers to its status requests.  A job that is being processed may be
\* found completed or failed by any answer, and stays so from then on.
\* An answer to a request issued when the job was in state r.seen reports
\* that state or a later one.
StatesAnswered(r) ==
    IF server[r.job_id] = "processing"
    THEN {"processing", "completed", "failed"}
    ELSE {r.seen, server[r.job_id]}

\* The JSON bodies GET /api/status/{job} may answer: a job state, a failed
\* job with or without an error_message; or a body that carries no status
\* field (an HTTP error body: fetch resolves on every HTTP status).
StatusBodies(r) ==
    {[job_id |-> r.job_id, status |-> s, error_message |-> "", progress |-> p] :
         s \in StatesAnswered(r), p \in progresses}
    \cup {[job_id |-> r.job_id, status |-> "failed", error_message |-> SrvErrorMessage,
           progress |-> p] :
             s \in StatesAnswered(r) \cap {"failed"}, p \in progresses}
    \cup {[job_id |-> NoJob, status |-> "undefined", error_message |-> "", progress |-> 0]}

\* the job's state at the server once it has answered status s
ServerAfter(j, s) ==
    IF s \in {"completed", "failed"} /\ server[j] = "processing"
    THEN [server EXCEPT ![j] = s]
    ELSE server

---------------------------------------------------------------------------
(* testConnection, run once by the mount effect *)

HealthResponse ==
    /\ healthReqs > 0
    /\ healthReqs' = healthReqs - 1
    /\ \E ok \in BOOLEAN : isConnected' = IF ok THEN "true" ELSE "false"
    /\ UNCHANGED <<previewVars, exportVars, progresses, lastProgress,
                   history, build, youtubeUrl, isProcessing, jobId, jobStatus, result,
                   error, interval, submitReqs, statusReqs, resultReqs, server,
                   nSubmits, nPolls, pollFailed>>

---------------------------------------------------------------------------
(* The URL input: onChange={(e) => setYoutubeUrl(e.target.value)} *)

setYoutubeUrl(u) ==
    /\ InputEnabled
    /\ u # youtubeUrl
    /\ youtubeUrl' = u
    /\ UNCHANGED <<previewVars, exportVars, progresses, lastProgress,
                   history, build, isProcessing, jobId, jobStatus, result, error,
                   isConnected, interval, healthReqs, submitReqs, statusReqs,
                   resultReqs, server, nSubmits, nPolls, pollFailed>>

---------------------------------------------------------------------------
(* handleProcessVideo *)

\* Validate with the pattern check left out
ValidateNoPattern(b, u, c) ==
    IF u = EmptyUrl THEN MsgEnterUrl(b)
    ELSE IF c = "false" THEN MsgBackendDown(b)
    ELSE ""

\* the validation block: the message of the first check that fails, "" when
\* all pass (an empty input is the only one that trims to nothing)
Validate(b, u, c) ==
    IF u = EmptyUrl THEN MsgEnterUrl(b)
    ELSE IF ~isValidYouTubeUrl(b, u) THEN MsgInvalidUrl(b)
    ELSE IF c = "false" THEN MsgBackendDown(b)
    ELSE ""

handleProcessVideo ==
    /\ SubmitEnabled(build, youtubeUrl, isProcessing, isConnected)
    /\ result' = NoResult
    /\ jobStatus' = NoStatus
    /\ IF Validate(build, youtubeUrl, isConnected) # ""
       THEN /\ error' = Validate(build, youtubeUrl, isConnected)
            /\ UNCHANGED <<isProcessing, interval, submitReqs, nSubmits>>
       ELSE /\ nSubmits < MaxSubmits
            /\ error' = ""
            /\ isProcessing' = TRUE
            /\ interval' = PollEffect(jobId, TRUE)
            /\ submitReqs' = Inc(submitReqs, "sinceReset")
            /\ nSubmits' = nSubmits + 1
    /\ UNCHANGED <<previewVars, exportVars, progresses, lastProgress,
                   history, build, youtubeUrl, jobId, isConnected, healthReqs,
                   statusReqs, resultReqs, server, nPolls, pollFailed>>

\* SubmitError that drops what the server sent
SubmitErrorGeneric(b, detail, message) == MsgSubmitFailed(b)

\* const errorMsg = data.detail || data.message || 'Failed to start processing'
SubmitError(b, detail, message) ==
    IF b = "App.tsx"
    THEN IF detail # "" THEN detail
         ELSE IF message # "" THEN message ELSE MsgSubmitFailed(b)
    ELSE IF message # "" THEN message ELSE MsgSubmitFailed(b)

\* the response with success: true; hasJob is whether it carries a job_id
SubmitSucceeded(q, hasJob) ==
    /\ submitReqs[q] > 0
    /\ submitReqs' = Dec(submitReqs, q)
    /\ server' = IF hasJob THEN [server EXCEPT ![NextJob] = "processing"] ELSE server
    /\ jobId' = IF hasJob THEN NextJob ELSE NoJob
    /\ interval' = PollEffect(jobId', isProcessing)
    /\ UNCHANGED <<previewVars, exportVars, progresses, lastProgress,
                   history, build, youtubeUrl, isProcessing, jobStatus, result, error,
                   isConnected, healthReqs, statusReqs, resultReqs, nSubmits,
                   nPolls, pollFailed>>

\* the bodies that do not carry success: true: {success: false, message?}
\* of the service, and the {detail} of an HTTP error answer
RejectBodies ==
    {[success |-> "false", detail |-> "", message |-> ""],
     [success |-> "false", detail |-> "", message |-> SrvMessage],
     [success |-> "undefined", detail |-> SrvDetail, message |-> ""]}

\* the response is the body data, whose success is not truthy
SubmitRejected(q, data) ==
    /\ submitReqs[q] > 0
    /\ submitReqs' = Dec(submitReqs, q)
    /\ data \in RejectBodies
    /\ error' = SubmitError(build, data.detail, data.message)
    /\ isProcessing' = FALSE
    /\ interval' = PollEffect(jobId, FALSE)
    /\ UNCHANGED <<previewVars, exportVars, progresses, lastProgress,
                   history, build, youtubeUrl, jobId, jobStatus, result, isConnected,
                   healthReqs, statusReqs, resultReqs, server, nSubmits,
                   nPolls, pollFailed>>

\* fetch rejects or response.json() throws
SubmitThrew(q) ==
    /\ submitReqs[q] > 0
    /\ submitReqs' = Dec(submitReqs, q)
    /\ error' = MsgSubmitThrew(build)
    /\ isProcessing' = FALSE
    /\ interval' = PollEffect(jobId, FALSE)
    /\ UNCHANGED <<previewVars, exportVars, progresses, lastProgress,
                   history, build, youtubeUrl, jobId, jobStatus, result, isConnected,
                   healthReqs, statusReqs, resultReqs, server, nSubmits,
                   nPolls, pollFailed>>

---------------------------------------------------------------------------
(* resetForm *)

resetForm ==
    /\ ResetVisible(build, jobId, error, result)
    /\ youtubeUrl' = EmptyUrl
    /\ jobId' = NoJob
    /\ jobStatus' = NoStatus
    /\ result' = NoResult
    /\ error' = ""
    /\ isProcessing' = FALSE
    /\ interval' = PollEffect(NoJob, FALSE)
    /\ submitReqs' = [sinceReset |-> 0,
                      beforeReset |-> submitReqs.beforeReset + submitReqs.sinceReset]
    /\ UNCHANGED <<previewVars, exportVars, progresses, lastProgress,
                   history, build, isConnected, healthReqs, statusReqs, resultReqs,
                   server, nSubmits, nPolls, pollFailed>>


---------------------------------------------------------------------------
(* The poll effect's interval callback *)

\* the interval fires: the callback starts and issues its status request
PollTick ==
    /\ interval # NoJob
    /\ nPolls < MaxPolls
    /\ statusReqs' = Inc(statusReqs, [job_id |-> interval, seen |-> server[interval]])
    /\ nPolls' = nPolls + 1
    /\ UNCHANGED <<previewVars, exportVars, progresses, lastProgress,
                   history, build, youtubeUrl, isProcessing, jobId, jobStatus, result,
                   error, isConnected, interval, healthReqs, submitReqs,
                   resultReqs, server, nSubmits, pollFailed>>

\* JobFailedError that drops what the server sent
JobFailedErrorGeneric(b, message) == MsgJobFailed(b)

\* status.error_message || 'Processing failed unexpectedly'
JobFailedError(b, message) == IF message # "" THEN message ELSE MsgJobFailed(b)

\* isProcessing after the callback has read the status field s
ProcessingAfterStatus(s, p) == IF s \in {"completed", "failed"} THEN FALSE ELSE p

\* a setter that never lets the displayed progress go down
setJobStatusMonotone(prev, status) ==
    [status EXCEPT !.progress = IF prev.progress > @ THEN prev.progress ELSE @]

\* setJobStatus(status): the cell holds the body as it was received
setJobStatus(prev, status) == status

\* the status request r resolves with the JSON body st
StatusResponse(r, st) ==
    /\ statusReqs[r] > 0
    /\ st \in StatusBodies(r)
    /\ statusReqs' = Dec(statusReqs, r)
    /\ jobStatus' = setJobStatus(jobStatus, st)
    /\ lastProgress' = jobStatus.progress
    /\ isProcessing' = ProcessingAfterStatus(st.status, isProcessing)
    /\ interval' = PollEffect(jobId, isProcessing')
    /\ IF st.status = "completed"
       THEN /\ resultReqs' = Inc(resultReqs, r.job_id)
            /\ UNCHANGED error
       ELSE IF st.status = "failed"
       THEN /\ error' = JobFailedError(build, st.error_message)
            /\ UNCHANGED resultReqs
       ELSE UNCHANGED <<error, resultReqs>>
    /\ server' = ServerAfter(r.job_id, st.status)
    /\ UNCHANGED <<previewVars, exportVars, progresses,
                   history, build, youtubeUrl, jobId, result, isConnected, healthReqs,
                   submitReqs, nSubmits, nPolls, pollFailed>>

\* the status request r resolves
StatusResponded(r) == \E st \in StatusBodies(r) : StatusResponse(r, st)

\* the status request r fails: fetch rejects or response.json() throws
StatusThrew(r) ==
    /\ statusReqs[r] > 0
    /\ statusReqs' = Dec(statusReqs, r)
    /\ error' = MsgPollThrew(build)
    /\ isProcessing' = FALSE
    /\ interval' = PollEffect(jobId, FALSE)
    /\ pollFailed' = IF history THEN pollFailed \cup {r.job_id} ELSE pollFailed
    /\ UNCHANGED <<previewVars, exportVars, progresses, lastProgress,
                   history, build, youtubeUrl, jobId, jobStatus, result, isConnected,
                   healthReqs, submitReqs, resultReqs, server, nSubmits,
                   nPolls>>

\* the JSON body GET /api/result/{j} answers: the job's payload
ResultBodies(j) ==
    {[kind |-> "payload", job_id |-> j]}

\* the result request for job j resolves with the JSON body res
ResultResponse(j, res) ==
    /\ resultReqs[j] > 0
    /\ res \in ResultBodies(j)
    /\ resultReqs' = Dec(resultReqs, j)
    /\ result' = res
    /\ UNCHANGED <<previewVars, exportVars, progresses, lastProgress,
                   history, build, youtubeUrl, isProcessing, jobId, jobStatus, error,
                   isConnected, interval, healthReqs, submitReqs, statusReqs,
                   server, nSubmits, nPolls, pollFailed>>

\* the result request for job j resolves
ResultResponded(j) == \E res \in ResultBodies(j) : ResultResponse(j, res)

\* the inner catch: App.tsx sets the error, part_000 only logs
ResultCatch(b, e) == IF b = "App.tsx" THEN MsgResultThrew ELSE e

\* the result request for job j fails: fetch rejects or json() throws
ResultThrew(j) ==
    /\ resultReqs[j] > 0
    /\ resultReqs' = Dec(resultReqs, j)
    /\ error' = ResultCatch(build, error)
    /\ UNCHANGED <<previewVars, exportVars, progresses, lastProgress,
                   history, build, youtubeUrl, isProcessing, jobId, jobStatus, result,
                   isConnected, interval, healthReqs, submitReqs, statusReqs,
                   server, nSubmits, nPolls, pollFailed>>

---------------------------------------------------------------------------
Next ==
    \/ HealthResponse
    \/ \E u \in InputUrls : setYoutubeUrl(u)
    \/ handleProcessVideo
    \/ \E q \in SubmitTags, hasJob \in BOOLEAN : SubmitSucceeded(q, hasJob)
    \/ \E q \in SubmitTags, data \in RejectBodies : SubmitRejected(q, data)
    \/ \E q \in SubmitTags : SubmitThrew(q)
    \/ resetForm
    \/ PollTick
    \/ \E r \in StatusReqKinds : StatusResponded(r)
    \/ \E r \in StatusReqKinds : StatusThrew(r)
    \/ \E j \in Jobs : ResultResponded(j)
    \/ \E j \in Jobs : ResultThrew(j)

Spec == Init /\ [][Next]_vars

\* the same behaviours, keeping the record of failed status requests
InitHistory == InitState(TRUE)
SpecHistory == InitHistory /\ [][Next]_vars

---------------------------------------------------------------------------
(* The form with any of the URLs the patterns tell apart typed into it *)

InitUrl ==
    /\ build \in Builds
    /\ youtubeUrl \in UrlGrid
    /\ isProcessing = FALSE
    /\ jobId = NoJob
    /\ jobStatus = NoStatus
    /\ result = NoResult
    /\ error = ""
    /\ isConnected = "null"
    /\ interval = NoJob
    /\ healthReqs = 1
    /\ submitReqs = [sinceReset |-> 0, beforeReset |-> 0]
    /\ statusReqs = [k \in StatusReqKinds |-> 0]
    /\ resultReqs = [j \in Jobs |-> 0]
    /\ server = [j \in Jobs |-> "none"]
    /\ nSubmits = 0
    /\ nPolls = 0
    /\ pollFailed = {}
    /\ history = FALSE
    /\ progresses = {0}
    /\ lastProgress = 0
    /\ ExportIdle
    /\ clips = <<>>
    /\ received = <<>>
    /\ viewMode = "grid"
    /\ potential = NotEvaluated
    /\ shortForm = NotComputed
    /\ highestEngagement = NotComputed

\* the form is submitted; the health check answers before or after
NextUrl ==
    \/ HealthResponse
    \/ handleProcessVideo

SpecUrl == InitUrl /\ [][NextUrl]_vars

---------------------------------------------------------------------------
(* The poll effect while job 1 is processed, told apart by progress *)

\* the submission of job 1 has been answered and the interval is running
InitProgress ==
    /\ build \in Builds
    /\ youtubeUrl = WatchUrl
    /\ isProcessing = TRUE
    /\ jobId = 1
    /\ jobStatus = NoStatus
    /\ result = NoResult
    /\ error = ""
    /\ isConnected = "true"
    /\ interval = 1
    /\ healthReqs = 0
    /\ submitReqs = [sinceReset |-> 0, beforeReset |-> 0]
    /\ statusReqs = [k \in StatusReqKinds |-> 0]
    /\ resultReqs = [j \in Jobs |-> 0]
    /\ server = [j \in Jobs |-> IF j = 1 THEN "processing" ELSE "none"]
    /\ nSubmits = 1
    /\ nPolls = 0
    /\ pollFailed = {}
    /\ history = FALSE
    /\ progresses = Progresses
    /\ lastProgress = 0
    /\ ExportIdle
    /\ clips = <<>>
    /\ received = <<>>
    /\ viewMode = "grid"
    /\ potential = NotEvaluated
    /\ shortForm = NotComputed
    /\ highestEngagement = NotComputed

NextProgress ==
    \/ PollTick
    \/ \E r \in StatusReqKinds : StatusResponded(r)
    \/ \E r \in StatusReqKinds : StatusThrew(r)
    \/ \E j \in Jobs : ResultResponded(j)
    \/ \E j \in Jobs : ResultThrew(j)

SpecProgress == InitProgress /\ [][NextProgress]_vars


---------------------------------------------------------------------------
(* Properties of the job lifecycle *)

\* the state resetForm leaves behind
IdleAsReset ==
    /\ youtubeUrl = EmptyUrl
    /\ jobId = NoJob
    /\ jobStatus = NoStatus
    /\ result = NoResult
    /\ error = ""
    /\ ~isProcessing

\* a step in which a status request or a result request resolves
LateResponse ==
    \/ \E r \in StatusReqKinds : statusReqs'[r] < statusReqs[r]
    \/ \E j \in Jobs : resultReqs'[j] < resultReqs[j]

\* C1: once resetForm has made the controller idle (a state in which every
\* request still in flight was issued before the reset), a status or result
\* response that arrives leaves jobStatus, result, error and isProcessing
\* as they are.
C1_LateResponseAfterResetIgnored ==
    [][IdleAsReset /\ LateResponse
         => UNCHANGED <<jobStatus, result, error, isProcessing>>]_vars

\* C2: never are two status requests of one job in flight.
C2_NoConcurrentPolls == \A j \in Jobs : StatusInFlight(j) <= 1

\* C3: a result request is issued in exactly the steps in which the first
\* "completed" answer of a job is received (server[j] is "completed" from
\* that answer on): one for each such job, and no second one later.
C3_ExactlyOneResultFetch ==
    [][\A j \in Jobs :
          resultReqs'[j] > resultReqs[j]
            <=> server[j] # "completed" /\ server'[j] = "completed"]_vars

\* C4: a run of handleProcessVideo on a URL that fails isValidYouTubeUrl
\* issues no request of any kind, starts no polling and leaves one of the
\* two validation messages in error.
C4_InvalidUrlNoRequest ==
    [][handleProcessVideo /\ ~isValidYouTubeUrl(build, youtubeUrl)
         => /\ UNCHANGED <<healthReqs, submitReqs, statusReqs, resultReqs,
                           nSubmits, nPolls, interval>>
            /\ ~isProcessing'
            /\ error' \in {MsgEnterUrl(build), MsgInvalidUrl(build)}]_vars

\* an invalid URL was submitted while a job was held (completed or failed)
C4_Witness ==
    /\ error = MsgInvalidUrl(build)
    /\ ~isValidYouTubeUrl(build, youtubeUrl)
    /\ jobId # NoJob

\* C5: a status request that fails at the transport level stops the polling
\* and leaves the connectivity message, and no status request is issued
\* afterwards for a job one of whose status requests has failed so.
C5_TransportFailureTerminal ==
    [][/\ (\E r \in StatusReqKinds : StatusThrew(r))
            => ~isProcessing' /\ interval' = NoJob /\ error' = MsgPollThrew(build)
       /\ nPolls' > nPolls => interval \notin pollFailed]_vars

\* C6: when a status response with status "failed" arrives for the job that
\* is being polled, polling stops, isProcessing is cleared, error is the
\* response's error_message if it has one and the fallback text otherwise,
\* and the step stores no result and requests none.
C6_FailedStatusEndsPolling ==
    [][\A r \in {k \in StatusReqKinds : statusReqs[k] > 0 /\ k.job_id = interval} :
       \A st \in {b \in StatusBodies(r) : b.status = "failed"} :
          StatusResponse(r, st)
            => /\ ~isProcessing'
               /\ interval' = NoJob
               /\ error' = IF st.error_message # "" THEN st.error_message
                           ELSE MsgJobFailed(build)
               /\ UNCHANGED <<result, resultReqs>>]_vars

\* the polled job was reported failed with the server's own message
C6_Witness ==
    /\ jobStatus.status = "failed"
    /\ jobStatus.job_id = jobId
    /\ error = SrvErrorMessage
    /\ ~isProcessing
    /\ interval = NoJob
    /\ result = NoResult

\* C7: when the result request that follows a "completed" status fails, the
\* controller is left with the result-retrieval message in error and with
\* no result.
C7_ResultFailureReported ==
    [][(\E j \in Jobs : ResultThrew(j))
         => error' = MsgResultThrew /\ result' = NoResult /\ ~isProcessing']_vars

\* C8: when the submission request throws, or resolves with a body whose
\* success is false, isProcessing is cleared, no polling runs and none is
\* requested, and error is the body's message if it has one and the generic
\* text of the branch otherwise.
C8_SubmissionFailureToIdle ==
    [][\A q \in SubmitTags :
          /\ SubmitThrew(q)
               => /\ ~isProcessing' /\ interval' = NoJob
                  /\ UNCHANGED <<statusReqs, nPolls>>
                  /\ error' = MsgSubmitThrew(build)
          /\ \A data \in RejectBodies :
               SubmitRejected(q, data) /\ data.success = "false"
                 => /\ ~isProcessing' /\ interval' = NoJob
                    /\ UNCHANGED <<statusReqs, nPolls>>
                    /\ error' = IF data.message # "" THEN data.message
                                ELSE MsgSubmitFailed(build)]_vars

\* a submission was rejected with the server's message
C8_Witness ==
    /\ error = SrvMessage
    /\ ~isProcessing
    /\ interval = NoJob
    /\ nSubmits > 0

\* C9: when a submission issued since the last reset is answered with a
\* job_id, the controller holds that job_id and polls it from then on.
C9_SuccessfulSubmitPolls ==
    [][SubmitSucceeded("sinceReset", TRUE)
         => jobId' # NoJob /\ isProcessing' /\ interval' = jobId']_vars

\* nothing is held that resetForm would clear
NothingToReset ==
    /\ jobId = NoJob
    /\ jobStatus = NoStatus
    /\ result = NoResult
    /\ error = ""
    /\ ~isProcessing
    /\ interval = NoJob

\* C10: in every state that holds anything of a job resetForm can be
\* invoked, and the step it takes leaves no job_id, no status, no result, no
\* error, isProcessing cleared and no interval.
C10_ResetFromEveryState ==
    [][/\ NothingToReset \/ ResetVisible(build, jobId, error, result)
       /\ resetForm => NothingToReset']_vars

\* C11: whenever a job identifier is tracked, exactly one of these holds:
\* processing is active, a result is stored, an error message is stored.
C11_ExactlyOneOutcome ==
    jobId # NoJob
      => \/ isProcessing /\ result = NoResult /\ error = ""
         \/ ~isProcessing /\ result # NoResult /\ error = ""
         \/ ~isProcessing /\ result = NoResult /\ error # ""

\* the controller holds the stored result of the tracked job
ReachedCompleted ==
    /\ jobId # NoJob
    /\ ~isProcessing
    /\ result # NoResult
    /\ result.job_id = jobId

\* the controller holds the failure of the tracked job
ReachedFailed ==
    /\ jobId # NoJob
    /\ ~isProcessing
    /\ jobStatus.status = "failed"
    /\ jobStatus.job_id = jobId
    /\ error # ""

\* a step in which a status or result request of the tracked job resolves
LateResponseOfTracked ==
    \/ \E r \in StatusReqKinds : r.job_id = jobId /\ statusReqs'[r] < statusReqs[r]
    \/ resultReqs'[jobId] < resultReqs[jobId]

\* C12: once the controller holds the result or the failure of the tracked
\* job, a status or result response of that job that arrives changes none
\* of jobStatus, result and error.
C12_LateResponseAfterTerminalDropped ==
    [][(ReachedCompleted \/ ReachedFailed) /\ LateResponseOfTracked
         => UNCHANGED <<jobStatus, result, error>>]_vars

\* C13: a status request is issued only while no submission is awaiting its
\* response and only for the tracked job, which has not been reported
\* completed or failed.
C13_StatusRequestOnlyWhilePolling ==
    [][nPolls' > nPolls
         => /\ submitReqs.sinceReset = 0
            /\ interval = jobId
            /\ server[interval] = "processing"]_vars

---------------------------------------------------------------------------
(* VideoPreview: clips, the scoring of a clip, the recommendation views *)

\* clips a result may hold at most
MaxClips == 3
\* evaluations of one clip card in a row that a behaviour follows
MaxEvaluations == 2

\* Scores are fractions of 1; the model counts them in thousandths.
Unit == 1000
\* the optional fields motion_score, visual_score when undefined
Undefined == -1

\* ai_analysis?: { motion_score?, visual_score? }
NoAnalysis == [present |-> FALSE, motion_score |-> Undefined, visual_score |-> Undefined]
Analysis(m, v) == [present |-> TRUE, motion_score |-> m, visual_score |-> v]

Clip(id, d, c, t, a) ==
    [clip_id |-> id, duration |-> d, confidence |-> c, type |-> t, ai_analysis |-> a]

\* the clip of the highest scores
TopClip == Clip(1, 30, Unit, "High Action", Analysis(Unit, Unit))

\* every clip of one identifier and duration over a grid of scores
Levels == {0, 250, 500, 750, Unit}
Types == {"High Action", "Balanced", "high action"}
Analyses ==
    {NoAnalysis} \cup {Analysis(m, v) : m \in Levels \cup {Undefined},
                                        v \in Levels \cup {Undefined}}
ClipGrid == {Clip(1, 30, c, t, a) : c \in Levels, t \in Types, a \in Analyses}

\* the clips a result is drawn from: distinct identifiers; durations
\* below, at and above 60; scores that tie; a motion_score of 0
ClipPool ==
    {Clip(1, 30, 900, "High Action", Analysis(Unit, Unit)),
     Clip(2, 60, 500, "Balanced", NoAnalysis),
     Clip(3, 45, 500, "Balanced", Analysis(0, 500)),
     Clip(4, 61, 750, "Balanced", Analysis(250, Undefined)),
     Clip(5, 20, 600, "Balanced", Analysis(300, 500)),
     Clip(6, 61, 0, "High Action", Analysis(Undefined, Undefined))}

\* the clip sequences a result may carry: no identifier twice
ClipSeqs ==
    UNION {{q \in [1..n -> ClipPool] :
               \A i, j \in 1..n : i # j => q[i].clip_id # q[j].clip_id} :
           n \in 0..MaxClips}

\* x || 0.5 : undefined and 0 are both falsy
OrHalf(x) == IF x = Undefined \/ x = 0 THEN Unit \div 2 ELSE x

\* MinOne without the bound
NoMin(x) == x

\* Math.min(1.0, x)
MinOne(x) == IF x > Unit THEN Unit ELSE x

\* a score that reads the view mode besides the clip
getViralPotentialOfView(clip) ==
    IF viewMode = "list" THEN MinOne(clip.confidence) ELSE MinOne(clip.confidence + Unit \div 10)

\* getViralPotential
getViralPotential(clip) ==
    LET baseScore == clip.confidence
        motionBonus == (OrHalf(clip.ai_analysis.motion_score) * 3) \div 10
        visualBonus == (OrHalf(clip.ai_analysis.visual_score) * 2) \div 10
        typeBonus == IF clip.type = "High Action" THEN Unit \div 5 ELSE Unit \div 10
    IN  MinOne(baseScore + motionBonus + visualBonus + typeBonus)

\* a filter that lets every clip pass
AnyDuration(clip) == TRUE

\* .filter(clip => clip.duration <= 60)
ShortFormEligible(clip) == clip.duration <= 60

\* (a, b) => getViralPotential(b) - getViralPotential(a)
compare(a, b) == getViralPotential(b) - getViralPotential(a)

\* c put into the sorted t behind every element that compare does not
\* place after it
Insert(c, t) ==
    LET k == Cardinality({i \in 1..Len(t) : compare(t[i], c) <= 0})
    IN  SubSeq(t, 1, k) \o <<c>> \o SubSeq(t, k + 1, Len(t))

\* Array.prototype.sort with compare: a stable sort
RECURSIVE sort(_)
sort(q) ==
    IF q = <<>> THEN <<>>
    ELSE Insert(q[Len(q)], sort(SubSeq(q, 1, Len(q) - 1)))

\* slice without its end
sliceToEnd(q, start, end) == SubSeq(q, start + 1, Len(q))

\* Array.prototype.slice(start, end)
slice(q, start, end) ==
    SubSeq(q, start + 1, IF end < Len(q) THEN end ELSE Len(q))

---------------------------------------------------------------------------
(* VideoPreview as rendered by App once a result is stored *)

\* App holds the result of job 1; VideoPreview is given result.clips
InitPreview ==
    /\ build \in Builds
    /\ youtubeUrl = WatchUrl
    /\ isProcessing = FALSE
    /\ jobId = 1
    /\ jobStatus = [job_id |-> 1, status |-> "completed", error_message |-> "",
                    progress |-> 0]
    /\ result = [kind |-> "payload", job_id |-> 1]
    /\ error = ""
    /\ isConnected = "true"
    /\ interval = NoJob
    /\ healthReqs = 0
    /\ submitReqs = [sinceReset |-> 0, beforeReset |-> 0]
    /\ statusReqs = [k \in StatusReqKinds |-> 0]
    /\ resultReqs = [j \in Jobs |-> 0]
    /\ server = [j \in Jobs |-> IF j = 1 THEN "completed" ELSE "none"]
    /\ nSubmits = 1
    /\ nPolls = 1
    /\ pollFailed = {}
    /\ history = FALSE
    /\ progresses = {0}
    /\ lastProgress = 0
    /\ ExportIdle
    /\ clips \in ClipSeqs \cup {<<c>> : c \in ClipGrid}
    /\ received = clips
    /\ viewMode = "grid"
    /\ potential = NotEvaluated
    /\ shortForm = NotComputed
    /\ highestEngagement = NotComputed

\* onClick={() => setViewMode('grid' | 'list')}
setViewMode(m) ==
    /\ m # viewMode
    /\ viewMode' = m
    /\ UNCHANGED <<appVars, exportVars, clips, received, potential, shortForm,
                   highestEngagement>>

\* the clip card of clips[i]: const viralPotential = getViralPotential(clip)
ClipCard(i) ==
    /\ i \in 1..Len(clips)
    /\ LET again == potential.clip_id = clips[i].clip_id
       IN  /\ again => potential.n < MaxEvaluations
           /\ potential' = [clip_id |-> clips[i].clip_id,
                            value |-> getViralPotential(clips[i]),
                            n |-> IF again THEN potential.n + 1 ELSE 1]
    /\ UNCHANGED <<appVars, exportVars, clips, received, viewMode, shortForm,
                   highestEngagement>>

\* clips.filter(...).sort(...).slice(0, 2): filter returns a new array
ShortFormView ==
    /\ shortForm' = [computed |-> TRUE,
                     items |-> slice(sort(SelectSeq(clips, ShortFormEligible)), 0, 2)]
    /\ UNCHANGED <<appVars, exportVars, clips, received, viewMode, potential,
                   highestEngagement>>

\* clips.sort(...).slice(0, 2): sort orders the array it is called on
HighestEngagementView ==
    /\ clips' = sort(clips)
    /\ highestEngagement' = [computed |-> TRUE, items |-> slice(clips', 0, 2)]
    /\ UNCHANGED <<appVars, exportVars, received, viewMode, potential, shortForm>>

NextPreview ==
    \/ \E m \in {"grid", "list"} : setViewMode(m)
    \/ \E i \in 1..MaxClips : ClipCard(i)
    \/ ShortFormView
    \/ HighestEngagementView

SpecPreview == InitPreview /\ [][NextPreview]_vars

---------------------------------------------------------------------------
(* VideoPreview's export handlers                                          *)
(*                                                                         *)
(* downloadClip, downloadAllClips and an async copyTimestamps are declared *)
(* inside getViralPotential (lines 103-260), between its first statements  *)
(* and its return.  The Download and Download All buttons name the first   *)
(* two; the Copy Timestamps buttons name copyTimestamps, which where the   *)
(* buttons are is the function declared at component scope (lines          *)
(* 272-280).  Each handler is modelled as it is declared: the two download *)
(* handlers as what their buttons are written to run, and both             *)
(* copyTimestamps, the one the buttons are bound to under its own name.    *)
(* A step is one synchronous segment of a handler; alert() ends a segment, *)
(* since it returns only when the user closes it and nothing else runs     *)
(* until then.                                                             *)

\* the texts of the alerts
MsgNoVideoId == "Video ID not available"
MsgClipPrepared == "Clip download prepared!"
MsgClipFailed == "Download failed"
MsgNoClips == "No clips available for download"
MsgBatchPrepared == "Batch download prepared!"
MsgBatchFailed == "Batch download failed"
MsgCopied == "Timestamps copied to clipboard!"
MsgCopiedFallback == "Timestamps copied (fallback method)"
MsgCopyManually == "Copy failed. Please copy manually:"

\* url.match(/(?:youtube\.com\/watch\?v=|youtu\.be\/)([^&\n?#]+)/): the
\* match is searched anywhere in the text, whatever the scheme
NoVideoId == "null"
getYouTubeId(u) ==
    IF u.host \in {"youtube.com", "www.youtube.com", "m.youtube.com"}
       /\ u.path = "/watch?v=" /\ u.id # ""
    THEN u.id
    ELSE IF u.host \in {"youtu.be", "www.youtu.be"} /\ u.path = "/" /\ u.id # ""
    THEN u.id
    ELSE IF u.host \in {"youtu.be", "www.youtu.be"} /\ u.path = "/watch?v="
    THEN "watch"
    ELSE IF u.host \in {"youtu.be", "www.youtu.be"} /\ u.path = "/embed/"
    THEN "embed/" \o u.id
    ELSE NoVideoId

\* how a fetch, or a clipboard write, may end: the body says success, the
\* body does not, or the call rejects
FetchOutcomes == {"success", "failure", "threw"}
WriteOutcomes == {"success", "threw"}

\* a handler suspended at an await
Await(op, clip_id, batch, what) ==
    [op |-> op, clip_id |-> clip_id, batch |-> batch, await |-> what]

\* a link window.open was called with: the link of clip clip_id, or the
\* link at index k of batch export number batch; after is the seconds
\* between the answer to the request and the call
Link(op, clip_id, batch, k, after) ==
    [op |-> op, clip_id |-> clip_id, batch |-> batch, k |-> k, after |-> after]

\* setTimeout(() => window.open(...), index * 1000), set at second t0
Timer(batch, k, t0) == [batch |-> batch, k |-> k, t0 |-> t0, due |-> t0 + k]

\* the fewest characters one entry of the fallback text has for the
\* identifier of WatchUrl: "N. ", a title of no length and its line end, the
\* line of the two times, the line of the link without a start offset
MinEntryChars == 71
\* fallbackText, counted in characters, for such entries joined by '\n'
fallbackTextChars(q) ==
    IF Len(q) = 0 THEN 0 ELSE Len(q) * MinEntryChars + (Len(q) - 1)

\* the end index of fallbackText.slice(0, 200)
SliceEnd == 200
\* text.slice(0, end), counted in characters
sliceChars(chars, end) == IF chars < end THEN chars ELSE end

\* the timer callbacks that can run next: the ones due, earliest first
Due == {t \in timers : t.due <= now}
NextDue ==
    {t \in Due : \A o \in Due :
        \/ t.due < o.due
        \/ t.due = o.due /\ t.batch < o.batch
        \/ t.due = o.due /\ t.batch = o.batch /\ t.k <= o.k}

\* VideoPreview is rendered with the clips of the result App holds; the
\* input of App holds the URL that was submitted, or has been emptied
\* since.  Both revisions of App render the same VideoPreview.
InitExport ==
    /\ build = "App.tsx"
    /\ youtubeUrl \in {WatchUrl, EmptyUrl}
    /\ isProcessing = FALSE
    /\ jobId = 1
    /\ jobStatus = [job_id |-> 1, status |-> "completed", error_message |-> "",
                    progress |-> 0]
    /\ result = [kind |-> "payload", job_id |-> 1]
    /\ error = ""
    /\ isConnected = "true"
    /\ interval = NoJob
    /\ healthReqs = 0
    /\ submitReqs = [sinceReset |-> 0, beforeReset |-> 0]
    /\ statusReqs = [k \in StatusReqKinds |-> 0]
    /\ resultReqs = [j \in Jobs |-> 0]
    /\ server = [j \in Jobs |-> IF j = 1 THEN "completed" ELSE "none"]
    /\ nSubmits = 1
    /\ nPolls = 1
    /\ pollFailed = {}
    /\ history = FALSE
    /\ progresses = {0}
    /\ lastProgress = 0
    /\ ExportIdle
    /\ clips \in {q \in ClipSeqs : \A i \in 1..Len(q) : q[i].clip_id = i}
    /\ received = clips
    /\ viewMode = "grid"
    /\ potential = NotEvaluated
    /\ shortForm = NotComputed
    /\ highestEngagement = NotComputed

\* the cells after the handler op, suspended in an alert, has resumed and
\* run its finally block
downloadingCleared(op, clip_id, set) == {}
downloadingAfter(op, clip_id, set) ==
    IF op = "downloadClip" THEN set \ {clip_id} ELSE set
batchClearedByAny(op, flag) == FALSE
batchAfter(op, flag) == IF op = "downloadAllClips" THEN FALSE ELSE flag
copyingAfter(op, flag) == IF op = "copyTimestampsEnhanced" THEN FALSE ELSE flag

\* the user closes the alert: alert() returns and the handler that called
\* it runs to its end
Dismiss ==
    /\ modal # NoAlert
    /\ modal' = NoAlert
    /\ downloadingClips' = downloadingAfter(modal.op, modal.clip_id, downloadingClips)
    /\ batchDownloading' = batchAfter(modal.op, batchDownloading)
    /\ copyingTimestamps' = copyingAfter(modal.op, copyingTimestamps)
    /\ UNCHANGED <<appVars, previewVars, playerVars, pending, timers, opened, clipboard,
                   now, nExports>>

\* downloadClip(clip) for the clip of card i, as declared at lines 103-155
downloadClip(i) ==
    /\ modal = NoAlert
    /\ i \in 1..Len(clips)
    /\ clips[i].clip_id \notin downloadingClips
    /\ nExports < MaxExports
    /\ nExports' = nExports + 1
    /\ IF getYouTubeId(youtubeUrl) = NoVideoId
       THEN /\ modal' = Alert(MsgNoVideoId, 0, "none", 0, 0)
            /\ UNCHANGED <<downloadingClips, pending>>
       ELSE /\ downloadingClips' = downloadingClips \cup {clips[i].clip_id}
            /\ pending' = pending \cup {Await("downloadClip", clips[i].clip_id, 0, "fetch")}
            /\ UNCHANGED modal
    /\ UNCHANGED <<appVars, previewVars, playerVars, batchDownloading, copyingTimestamps,
                   timers, opened, clipboard, now>>

\* the links opened once the request for one clip has ended, whatever its end
openedAlways(outcome, links, link) == Append(links, link)
\* if (result.success) { window.open(result.youtube_url, '_blank'); ... }
openedAfterDownload(outcome, links, link) ==
    IF outcome = "success" THEN Append(links, link) ELSE links

\* the request of downloadClip for clip clip_id ends
DownloadClipResolved(clip_id, outcome) ==
    /\ modal = NoAlert
    /\ Await("downloadClip", clip_id, 0, "fetch") \in pending
    /\ pending' = pending \ {Await("downloadClip", clip_id, 0, "fetch")}
    /\ opened' = openedAfterDownload(outcome, opened, Link("clip", clip_id, 0, 0, 0))
    /\ modal' = Alert(IF outcome = "success" THEN MsgClipPrepared ELSE MsgClipFailed,
                      0, "downloadClip", clip_id, 0)
    /\ UNCHANGED <<appVars, previewVars, playerVars, downloadingClips, batchDownloading,
                   copyingTimestamps, timers, clipboard, now, nExports>>

\* downloadAllClips(), as declared at lines 158-204
downloadAllClips ==
    /\ modal = NoAlert
    /\ ~batchDownloading
    /\ nExports < MaxExports
    /\ nExports' = nExports + 1
    /\ IF getYouTubeId(youtubeUrl) = NoVideoId \/ Len(clips) = 0
       THEN /\ modal' = Alert(MsgNoClips, 0, "none", 0, 0)
            /\ UNCHANGED <<batchDownloading, pending>>
       ELSE /\ batchDownloading' = TRUE
            /\ pending' = pending \cup {Await("downloadAllClips", 0, nExports', "fetch")}
            /\ UNCHANGED modal
    /\ UNCHANGED <<appVars, previewVars, playerVars, downloadingClips, copyingTimestamps,
                   timers, opened, clipboard, now>>

\* the timers set once the batch request has ended, whatever its end
scheduledAlways(outcome, batch, n) == {Timer(batch, k, now) : k \in 0..(n - 1)}
\* if (result.success) { result.clips.forEach((clipInfo, index) =>
\*     setTimeout(..., index * 1000)) }
scheduledAfterBatch(outcome, batch, n) ==
    IF outcome = "success" THEN {Timer(batch, k, now) : k \in 0..(n - 1)} ELSE {}

\* the request of batch export number batch ends; the answer carries one
\* link for each clip
DownloadAllResolved(batch, outcome) ==
    /\ modal = NoAlert
    /\ Await("downloadAllClips", 0, batch, "fetch") \in pending
    /\ pending' = pending \ {Await("downloadAllClips", 0, batch, "fetch")}
    /\ timers' = timers \cup scheduledAfterBatch(outcome, batch, Len(clips))
    /\ modal' = Alert(IF outcome = "success" THEN MsgBatchPrepared ELSE MsgBatchFailed,
                      0, "downloadAllClips", 0, batch)
    /\ UNCHANGED <<appVars, previewVars, playerVars, downloadingClips, batchDownloading,
                   copyingTimestamps, opened, clipboard, now, nExports>>

\* a timer callback runs: window.open(clipInfo.youtube_url, '_blank')
TimerFires ==
    /\ modal = NoAlert
    /\ \E t \in NextDue :
          /\ timers' = timers \ {t}
          /\ opened' = Append(opened, Link("batch", 0, t.batch, t.k, now - t.t0))
          /\ now' = IF timers' = {} THEN 0 ELSE now
    /\ UNCHANGED <<appVars, previewVars, playerVars, downloadingClips, batchDownloading,
                   copyingTimestamps, pending, modal, clipboard, nExports>>

\* a second passes on the clock, which runs while a timer is yet to become
\* due and starts from 0 when the last one has run.  A timer callback runs as soon as it is due, unless an
\* alert is on screen: alert() returns only when the user closes it, and
\* no callback runs before it returns.
Tick ==
    /\ \E t \in timers : t.due > now
    /\ modal # NoAlert \/ Due = {}
    /\ now' = now + 1
    /\ UNCHANGED <<appVars, previewVars, playerVars, downloadingClips, batchDownloading,
                   copyingTimestamps, pending, modal, timers, opened, clipboard,
                   nExports>>

\* copyTimestamps(), as declared at component scope (lines 272-280): the
\* function both Copy Timestamps buttons are bound to
copyTimestamps ==
    /\ modal = NoAlert
    /\ ~copyingTimestamps
    /\ nExports < MaxExports
    /\ Await("copyTimestamps", 0, 0, "writeText") \notin pending
    /\ nExports' = nExports + 1
    /\ pending' = pending \cup {Await("copyTimestamps", 0, 0, "writeText")}
    /\ UNCHANGED <<appVars, previewVars, playerVars, downloadingClips, batchDownloading,
                   copyingTimestamps, modal, timers, opened, clipboard, now>>

\* navigator.clipboard.writeText(timestamps).then(() => alert(...)): there
\* is no handler for a rejection
TimestampsWritten(outcome) ==
    /\ modal = NoAlert
    /\ Await("copyTimestamps", 0, 0, "writeText") \in pending
    /\ pending' = pending \ {Await("copyTimestamps", 0, 0, "writeText")}
    /\ IF outcome = "success"
       THEN /\ clipboard' = "timestamps"
            /\ modal' = Alert(MsgCopied, 0, "none", 0, 0)
       ELSE UNCHANGED <<clipboard, modal>>
    /\ UNCHANGED <<appVars, previewVars, playerVars, downloadingClips, batchDownloading,
                   copyingTimestamps, timers, opened, now, nExports>>

\* copyTimestamps(), as declared inside getViralPotential (lines 207-260)
copyTimestampsEnhanced ==
    /\ modal = NoAlert
    /\ ~copyingTimestamps
    /\ nExports < MaxExports
    /\ nExports' = nExports + 1
    /\ IF getYouTubeId(youtubeUrl) = NoVideoId
       THEN /\ modal' = Alert(MsgNoVideoId, 0, "none", 0, 0)
            /\ UNCHANGED <<copyingTimestamps, pending>>
       ELSE /\ copyingTimestamps' = TRUE
            /\ pending' = pending \cup {Await("copyTimestampsEnhanced", 0, 0, "fetch")}
            /\ UNCHANGED modal
    /\ UNCHANGED <<appVars, previewVars, playerVars, downloadingClips, batchDownloading,
                   timers, opened, clipboard, now>>

\* the request for the formatted text ends: the handler goes on to write
\* the text it received, or, from the catch block, the fallback text
FormatResolved(outcome) ==
    /\ modal = NoAlert
    /\ Await("copyTimestampsEnhanced", 0, 0, "fetch") \in pending
    /\ pending' = (pending \ {Await("copyTimestampsEnhanced", 0, 0, "fetch")})
                  \cup {Await("copyTimestampsEnhanced", 0, 0,
                              IF outcome = "success" THEN "writeRemote"
                              ELSE "writeFallback")}
    /\ UNCHANGED <<appVars, previewVars, playerVars, downloadingClips, batchDownloading,
                   copyingTimestamps, modal, timers, opened, clipboard, now,
                   nExports>>

\* await navigator.clipboard.writeText(result.timestamp_text) ends
RemoteWritten(outcome) ==
    /\ modal = NoAlert
    /\ Await("copyTimestampsEnhanced", 0, 0, "writeRemote") \in pending
    /\ IF outcome = "success"
       THEN /\ pending' = pending \ {Await("copyTimestampsEnhanced", 0, 0, "writeRemote")}
            /\ clipboard' = "remote"
            /\ modal' = Alert(MsgCopied, 0, "copyTimestampsEnhanced", 0, 0)
       ELSE /\ pending' = (pending \ {Await("copyTimestampsEnhanced", 0, 0, "writeRemote")})
                          \cup {Await("copyTimestampsEnhanced", 0, 0, "writeFallback")}
            /\ UNCHANGED <<clipboard, modal>>
    /\ UNCHANGED <<appVars, previewVars, playerVars, downloadingClips, batchDownloading,
                   copyingTimestamps, timers, opened, now, nExports>>

\* await navigator.clipboard.writeText(fallbackText) ends
FallbackWritten(outcome) ==
    /\ modal = NoAlert
    /\ Await("copyTimestampsEnhanced", 0, 0, "writeFallback") \in pending
    /\ pending' = pending \ {Await("copyTimestampsEnhanced", 0, 0, "writeFallback")}
    /\ IF outcome = "success"
       THEN /\ clipboard' = "fallback"
            /\ modal' = Alert(MsgCopiedFallback, 0, "copyTimestampsEnhanced", 0, 0)
       ELSE /\ modal' = Alert(MsgCopyManually,
                              sliceChars(fallbackTextChars(clips), SliceEnd),
                              "copyTimestampsEnhanced", 0, 0)
            /\ UNCHANGED clipboard
    /\ UNCHANGED <<appVars, previewVars, playerVars, downloadingClips, batchDownloading,
                   copyingTimestamps, timers, opened, now, nExports>>

NextExport ==
    \/ Dismiss
    \/ \E i \in 1..MaxClips : downloadClip(i)
    \/ \E c \in 1..MaxClips, o \in FetchOutcomes : DownloadClipResolved(c, o)
    \/ downloadAllClips
    \/ \E b \in 1..MaxExports, o \in FetchOutcomes : DownloadAllResolved(b, o)
    \/ TimerFires
    \/ Tick
    \/ copyTimestamps
    \/ \E o \in WriteOutcomes : TimestampsWritten(o)
    \/ copyTimestampsEnhanced
    \/ \E o \in FetchOutcomes : FormatResolved(o)
    \/ \E o \in WriteOutcomes : RemoteWritten(o)
    \/ \E o \in WriteOutcomes : FallbackWritten(o)

SpecExport == InitExport /\ [][NextExport]_vars

---------------------------------------------------------------------------
(* Properties of the scoring and of the recommendation views *)

\* the clips of the caller's array that the last clip card evaluation was of
EvaluatedClips ==
    {clips[i] : i \in {k \in 1..Len(clips) :
                          potential.n > 0 /\ clips[k].clip_id = potential.clip_id}}

\* C14: the viral potential of a clip whose confidence and scores are in
\* [0,1] (scores possibly absent) lies in [0,1], and that of the clip with
\* confidence 1, motion 1, visual 1 and type "High Action" is exactly 1.
C14_ViralPotentialInUnitRange ==
    \A clip \in EvaluatedClips :
        /\ 0 <= potential.value
        /\ potential.value <= Unit
        /\ clip = TopClip => potential.value = Unit

\* the clip of the highest scores has been evaluated
C14_Witness ==
    /\ TopClip \in EvaluatedClips
    /\ potential.value = Unit

\* min(1, confidence + 0.3*m + 0.2*v + t) with m, v the scores when present
\* (0 included) and 0.5 when absent
ViralPotentialClaimed(clip) ==
    LET m == IF clip.ai_analysis.motion_score = Undefined
             THEN Unit \div 2 ELSE clip.ai_analysis.motion_score
        v == IF clip.ai_analysis.visual_score = Undefined
             THEN Unit \div 2 ELSE clip.ai_analysis.visual_score
        t == IF clip.type = "High Action" THEN Unit \div 5 ELSE Unit \div 10
        sum == clip.confidence + (m * 3) \div 10 + (v * 2) \div 10 + t
    IN  IF sum > Unit THEN Unit ELSE sum

\* C15: the viral potential computed for a clip equals
\* min(1, confidence + 0.3*m + 0.2*v + t), a score of 0 counting as present.
C15_ViralPotentialFormula ==
    \A clip \in EvaluatedClips : potential.value = ViralPotentialClaimed(clip)

Min2(n) == IF n < 2 THEN n ELSE 2

\* the clips of the caller's array with duration <= 60
Eligible == {i \in 1..Len(clips) : clips[i].duration <= 60}

\* C17: the short-form view holds no clip longer than 60 seconds, and a
\* clip of exactly 60 seconds is in it when at most two clips are eligible.
C17_ShortFormAtMost60 ==
    shortForm.computed
      => /\ \A k \in 1..Len(shortForm.items) : shortForm.items[k].duration <= 60
         /\ Cardinality(Eligible) <= 2
              => \A i \in Eligible :
                     clips[i].duration = 60
                       => \E k \in 1..Len(shortForm.items) : shortForm.items[k] = clips[i]

\* the view holds a clip of 60 seconds while a longer clip was left out
C17_Witness ==
    /\ shortForm.computed
    /\ \E k \in 1..Len(shortForm.items) : shortForm.items[k].duration = 60
    /\ \E i \in 1..Len(clips) : clips[i].duration > 60

\* C18: the short-form view has min(2, number of clips with duration <= 60)
\* items and the highest-engagement view min(2, number of clips) items.
C18_ViewsReturnTwo ==
    /\ shortForm.computed => Len(shortForm.items) = Min2(Cardinality(Eligible))
    /\ highestEngagement.computed => Len(highestEngagement.items) = Min2(Len(clips))

\* both views were cut to two out of three eligible clips
C18_Witness ==
    /\ shortForm.computed
    /\ highestEngagement.computed
    /\ Cardinality(Eligible) = 3
    /\ Len(shortForm.items) = 2
    /\ Len(highestEngagement.items) = 2

\* the first two elements of e in descending order of P, elements of equal
\* P in their order in e
RankedView(P(_), e) ==
    LET Before(i, j) == P(e[i]) > P(e[j]) \/ (P(e[i]) = P(e[j]) /\ i < j)
        Rank(i) == 1 + Cardinality({j \in 1..Len(e) : Before(j, i)})
    IN  [r \in 1..Min2(Len(e)) |-> e[CHOOSE i \in 1..Len(e) : Rank(i) = r]]

\* C19: each view is the first two of its eligible clips, in the order the
\* server sent them, sorted by descending viral potential with ties kept in
\* that order.
C19_ViewsRankedStable ==
    /\ shortForm.computed
         => shortForm.items
              = RankedView(ViralPotentialClaimed, SelectSeq(received, ShortFormEligible))
    /\ highestEngagement.computed
         => highestEngagement.items = RankedView(ViralPotentialClaimed, received)

\* the same ranking by the value getViralPotential computes
ViewsRankedByGetViralPotential ==
    /\ shortForm.computed
         => shortForm.items
              = RankedView(getViralPotential, SelectSeq(received, ShortFormEligible))
    /\ highestEngagement.computed
         => highestEngagement.items = RankedView(getViralPotential, received)

\* C20: the clip sequence the caller holds keeps the order in which the
\* server sent it, however often the views are computed.
C20_ViewsLeaveClipsUnchanged == clips = received

---------------------------------------------------------------------------
(* Properties of the URL validation *)

\* the URLs the claim accepts: a watch page with an identifier on the bare,
\* www. or m. host, or a short link whose path begins with an identifier
WatchPage(u) ==
    /\ u.host \in {"youtube.com", "www.youtube.com", "m.youtube.com"}
    /\ u.path = "/watch?v="
    /\ u.id # ""
ShortLink(u) ==
    /\ u.host \in {"youtu.be", "www.youtu.be"}
    /\ \/ u.path = "/" /\ u.id # ""
       \/ u.path \in {"/watch?v=", "/embed/"}
Acceptable(u) == u.scheme \in {"http", "https"} /\ (WatchPage(u) \/ ShortLink(u))

\* C27: a submission issues its request if and only if the URL is an
\* http(s) watch-page URL with an identifier on the bare, www. or m. host,
\* or an http(s) short link with an identifier in its path; for every other
\* URL no request is issued.
C27_SubmitAcceptsWatchAndShortLinks ==
    [][handleProcessVideo => (nSubmits' > nSubmits <=> Acceptable(youtubeUrl))]_vars

\* the same for the current revision alone
SubmitAcceptsInAppTsx ==
    [][handleProcessVideo /\ build = "App.tsx" =>
           (nSubmits' > nSubmits <=> Acceptable(youtubeUrl))]_vars

\* the helper of services/api.ts accepts the same URLs
ApiHelperAccepts == apiIsValidYouTubeUrl(youtubeUrl) <=> Acceptable(youtubeUrl)

---------------------------------------------------------------------------
(* Properties of the displayed status *)

\* C30: every status answer that is applied replaces the displayed status,
\* progress included, by exactly the answer's values; a progress lower than
\* the one displayed before is displayed as it came.
C30_StatusReplacedByResponse ==
    [][\A r \in StatusReqKinds : \A st \in StatusBodies(r) :
           StatusResponse(r, st) => jobStatus' = st]_vars

\* an answer has lowered the displayed progress of the job being polled
C30_Witness ==
    /\ isProcessing
    /\ jobStatus.status = "processing"
    /\ jobStatus.progress < lastProgress

---------------------------------------------------------------------------
(* Properties of the export handlers *)

\* the clips whose single-clip export has started and not run to its end:
\* the request is unanswered, or the alert that reports its answer is open
ExportingIds ==
    {p.clip_id : p \in {q \in pending : q.op = "downloadClip"}}
    \cup (IF modal.op = "downloadClip" THEN {modal.clip_id} ELSE {})

BatchRequestFailed ==
    \E b \in 1..MaxExports, o \in {"failure", "threw"} : DownloadAllResolved(b, o)

\* C21: while the request of a batch export is unanswered none of its links
\* is opened or scheduled, and when the request fails (the call rejects or
\* the body's success is false) no link is opened or scheduled and the one
\* batch error is shown.
C21_FailedBatchOpensNothing ==
    /\ [](\A p \in pending : p.op = "downloadAllClips" =>
             /\ \A t \in timers : t.batch # p.batch
             /\ \A i \in 1..Len(opened) : opened[i].batch # p.batch)
    /\ [][BatchRequestFailed =>
             /\ timers' = timers
             /\ opened' = opened
             /\ modal'.text = MsgBatchFailed]_vars

\* a batch export has failed and its error is on screen
C21_Witness ==
    /\ modal.text = MsgBatchFailed
    /\ Len(clips) > 0
    /\ opened = <<>>

\* C22: when the text is shown for manual copying (the request for the
\* formatted text and the write of the fallback text have both failed), the
\* text shown is the whole fallback text.
C22_FallbackTextShownWhole ==
    modal.text = MsgCopyManually => modal.chars = fallbackTextChars(clips)

CopyOps == {"copyTimestamps", "copyTimestampsEnhanced"}
CopyRunning == {p \in pending : p.op \in CopyOps}

\* C23: a run of the timestamp export ends with the formatted text in the
\* clipboard, or with the fallback text in the clipboard, or with the
\* fallback text shown; never with none of these.
C23_CopyEndsWithText ==
    [][Cardinality(CopyRunning') < Cardinality(CopyRunning) =>
          \/ modal'.text = MsgCopied /\ clipboard' \in {"remote", "timestamps"}
          \/ modal'.text = MsgCopiedFallback /\ clipboard' = "fallback"
          \/ modal'.text = MsgCopyManually]_vars

\* C24: the link at index k of a batch export is opened k seconds after the
\* answer to the batch request (so consecutive links of one batch are one
\* second apart).
C24_BatchLinkOpenedOnItsSecond ==
    \A i \in 1..Len(opened) :
        opened[i].op = "batch" => opened[i].after = opened[i].k

\* the links of one batch are opened in the order of their indices, each
\* once
BatchLinksInOrder ==
    \A i, j \in 1..Len(opened) :
        /\ opened[i].op = "batch"
        /\ opened[j].op = "batch"
        /\ opened[i].batch = opened[j].batch
        /\ i < j
        => opened[i].k < opened[j].k

\* C25: the set of exporting identifiers is at every moment the set of the
\* clips whose single-clip export has started and not ended; it is empty
\* when none is left.
C25_ExportingSetIsRunningExports == downloadingClips = ExportingIds

\* the exports of two clips are in flight together
C25_Witness ==
    Cardinality({p \in pending : p.op = "downloadClip" /\ p.await = "fetch"}) = 2

lifecycleVars == <<jobId, jobStatus, result, error, isProcessing>>

ClipExportStep ==
    \/ \E i \in 1..MaxClips : downloadClip(i)
    \/ \E c \in 1..MaxClips, o \in FetchOutcomes : DownloadClipResolved(c, o)
    \/ Dismiss /\ modal.op = "downloadClip"
BatchExportStep ==
    \/ downloadAllClips
    \/ \E b \in 1..MaxExports, o \in FetchOutcomes : DownloadAllResolved(b, o)
    \/ TimerFires
    \/ Dismiss /\ modal.op = "downloadAllClips"
CopyStep ==
    \/ copyTimestamps
    \/ \E o \in WriteOutcomes : TimestampsWritten(o)
    \/ copyTimestampsEnhanced
    \/ \E o \in FetchOutcomes : FormatResolved(o)
    \/ \E o \in WriteOutcomes : RemoteWritten(o)
    \/ \E o \in WriteOutcomes : FallbackWritten(o)
    \/ Dismiss /\ modal.op = "copyTimestampsEnhanced"

\* C26: a step of a single-clip export leaves the batch flag and the
\* clipboard flag as they are, a step of a batch export the exporting set
\* and the clipboard flag, a step of a timestamp export the exporting set
\* and the batch flag; none changes jobId, jobStatus, result, error or
\* isProcessing.
C26_ExportChangesOwnIndicatorOnly ==
    [][/\ ClipExportStep =>
             UNCHANGED <<batchDownloading, copyingTimestamps, lifecycleVars>>
       /\ BatchExportStep =>
             UNCHANGED <<downloadingClips, copyingTimestamps, lifecycleVars>>
       /\ CopyStep =>
             UNCHANGED <<downloadingClips, batchDownloading, lifecycleVars>>]_vars

\* a single-clip export is about to run its finally block while a batch
\* export is in flight
C26_Witness ==
    /\ modal.op = "downloadClip"
    /\ batchDownloading
    /\ \E p \in pending : p.op = "downloadAllClips"

\* C28: when the request of a single-clip export succeeds exactly one link,
\* the clip's, is opened; when it fails no link is opened and the error is
\* shown; either way the handler then removes the clip's identifier from
\* the exporting set and no other.
C28_ClipExportOpensOneLinkOrNone ==
    [][/\ \A c \in 1..MaxClips : DownloadClipResolved(c, "success") =>
             /\ opened' = Append(opened, Link("clip", c, 0, 0, 0))
             /\ modal'.op = "downloadClip" /\ modal'.clip_id = c
       /\ \A c \in 1..MaxClips, o \in {"failure", "threw"} :
             DownloadClipResolved(c, o) =>
                 /\ opened' = opened
                 /\ modal'.text = MsgClipFailed
                 /\ modal'.op = "downloadClip" /\ modal'.clip_id = c
       /\ Dismiss /\ modal.op = "downloadClip" =>
             downloadingClips' = downloadingClips \ {modal.clip_id}]_vars

\* one clip's export has succeeded and ended, another's has just failed
C28_Witness ==
    /\ modal.text = MsgClipFailed
    /\ Len(opened) = 1
    /\ opened[1].op = "clip"
    /\ opened[1].clip_id # modal.clip_id
    /\ opened[1].clip_id \notin downloadingClips

\* C29: while an export runs its indicator is set: the clip's identifier is
\* in the exporting set, the batch flag is set, the clipboard flag is set.
C29_IndicatorSetWhileRunning ==
    \A p \in pending :
        /\ p.op = "downloadClip" => p.clip_id \in downloadingClips
        /\ p.op = "downloadAllClips" => batchDownloading
        /\ p.op \in CopyOps => copyingTimestamps

\* the same for the handlers declared inside getViralPotential alone
NestedIndicatorSetWhileRunning ==
    \A p \in pending :
        /\ p.op = "downloadClip" => p.clip_id \in downloadingClips
        /\ p.op = "downloadAllClips" => batchDownloading
        /\ p.op = "copyTimestampsEnhanced" => copyingTimestamps

---------------------------------------------------------------------------
(* Further properties of the scoring *)

\* the scores of clip d are given, and d is clip c with one of confidence,
\* motion_score and visual_score raised
Given(x) == x # Undefined
RaisedInOne(c, d) ==
    /\ c.ai_analysis.present /\ d.ai_analysis.present
    /\ Given(c.ai_analysis.motion_score) /\ Given(d.ai_analysis.motion_score)
    /\ Given(c.ai_analysis.visual_score) /\ Given(d.ai_analysis.visual_score)
    /\ c.clip_id = d.clip_id /\ c.duration = d.duration /\ c.type = d.type
    /\ \/ /\ c.confidence < d.confidence
          /\ c.ai_analysis = d.ai_analysis
       \/ /\ c.confidence = d.confidence
          /\ c.ai_analysis.motion_score < d.ai_analysis.motion_score
          /\ c.ai_analysis.visual_score = d.ai_analysis.visual_score
       \/ /\ c.confidence = d.confidence
          /\ c.ai_analysis.motion_score = d.ai_analysis.motion_score
          /\ c.ai_analysis.visual_score < d.ai_analysis.visual_score

\* C37: of two clips that differ in one of confidence, motion score and
\* visual score only, all given and in [0,1], 0 included, the one with the
\* larger value does not have the lower viral potential.
C37_ViralPotentialMonotone ==
    \A c \in EvaluatedClips : \A d \in ClipGrid :
        RaisedInOne(c, d) => potential.value <= getViralPotential(d)

\* the same for scores above 0: the values clip.x || 0.5 leaves as they are
ViralPotentialMonotoneAboveZero ==
    \A c \in EvaluatedClips : \A d \in ClipGrid :
        /\ RaisedInOne(c, d)
        /\ c.ai_analysis.motion_score > 0
        /\ c.ai_analysis.visual_score > 0
        => potential.value <= getViralPotential(d)


---------------------------------------------------------------------------
(* VideoPreview's player and its links                                     *)

\* thousandths in a second: start_time is a number of seconds, which may
\* have a fraction
Second == 1000
\* Math.floor(startTime)
floor(s) == s \div Second

\* the start_time the result gives the clip of each identifier of the pool:
\* 0, a fraction below one second, a fraction above, whole seconds
StartTimes == <<0, 500, 12750, 1000, 60000, 90500>>
start_time(clip) == StartTimes[clip.clip_id]

\* getYouTubeLink(startTime), in the render whose prop youtubeUrl is u:
\* videoId is getYouTubeId(youtubeUrl), and startTime ? ... : baseUrl takes
\* the second branch for a startTime of 0
getYouTubeLink(u, startTime) ==
    IF getYouTubeId(u) = NoVideoId
    THEN Href(u, NoOffset)
    ELSE LET baseUrl == Url("https", "www.youtube.com", "/watch?v=", getYouTubeId(u))
         IN  IF startTime # 0
             THEN Href(baseUrl, floor(startTime))
             ELSE Href(baseUrl, NoOffset)

\* the URL that was submitted for the job whose clips are displayed, and
\* the URL of another video
SubmittedUrl == WatchUrl
OtherUrl == Url("https", "youtu.be", "/", "9bZkp7q19f0")
\* what the user may type into the input while the clips are displayed
PlayerUrls == {EmptyUrl, SubmittedUrl, OtherUrl, EmbedUrl}

\* {result && <VideoPreview ... youtubeUrl={youtubeUrl} />}
VideoPreviewMounted == result # NoResult

\* {isPlayerVisible && selectedClip && videoId && (...)}
PlayerShown ==
    /\ VideoPreviewMounted
    /\ isPlayerVisible
    /\ selectedClip # NoClip
    /\ getYouTubeId(youtubeUrl) # NoVideoId

\* the job has completed, its clips are displayed and the input still
\* holds the URL that was submitted
InitPlayer ==
    /\ InitExport
    /\ youtubeUrl = SubmittedUrl

\* handleClipPreview(clip) for the clip of card i
handleClipPreview(i) ==
    /\ VideoPreviewMounted
    /\ modal = NoAlert
    /\ i \in 1..Len(clips)
    /\ selectedClip' = [clip_id |-> clips[i].clip_id, start_time |-> start_time(clips[i])]
    /\ isPlayerVisible' = TRUE
    /\ UNCHANGED <<appVars, previewVars, downloadingClips, batchDownloading,
                   copyingTimestamps, pending, modal, timers, opened, clipboard,
                   now, nExports, youTubeLink>>

\* the player's close button: onClick={() => setIsPlayerVisible(false)}
closePlayer ==
    /\ PlayerShown
    /\ modal = NoAlert
    /\ isPlayerVisible' = FALSE
    /\ UNCHANGED <<appVars, previewVars, downloadingClips, batchDownloading,
                   copyingTimestamps, pending, modal, timers, opened, clipboard,
                   now, nExports, selectedClip, youTubeLink>>

\* a call of getYouTubeLink by a button of the player, and what the button
\* does with the link
LinkBuilt(use) ==
    [called |-> TRUE, use |-> use, youtubeUrl |-> youtubeUrl,
     startTime |-> selectedClip.start_time,
     href |-> getYouTubeLink(youtubeUrl, selectedClip.start_time)]

\* Open in YouTube: window.open(getYouTubeLink(selectedClip.start_time), '_blank')
OpenInYouTube ==
    /\ PlayerShown
    /\ modal = NoAlert
    /\ youTubeLink' = LinkBuilt("open")
    /\ UNCHANGED <<appVars, previewVars, downloadingClips, batchDownloading,
                   copyingTimestamps, pending, modal, timers, opened, clipboard,
                   now, nExports, selectedClip, isPlayerVisible>>

\* Copy Link: navigator.clipboard.writeText(getYouTubeLink(selectedClip.start_time)),
\* whose promise nothing waits for
CopyLink(outcome) ==
    /\ PlayerShown
    /\ modal = NoAlert
    /\ youTubeLink' = LinkBuilt("copy")
    /\ clipboard' = IF outcome = "success" THEN "link" ELSE clipboard
    /\ UNCHANGED <<appVars, previewVars, downloadingClips, batchDownloading,
                   copyingTimestamps, pending, modal, timers, opened, now,
                   nExports, selectedClip, isPlayerVisible>>

\* the clips are displayed: the user edits the input, plays clips, uses the
\* player's buttons and exports single clips
NextPlayer ==
    \/ \E u \in PlayerUrls : modal = NoAlert /\ setYoutubeUrl(u)
    \/ \E i \in 1..MaxClips : handleClipPreview(i)
    \/ closePlayer
    \/ OpenInYouTube
    \/ \E o \in WriteOutcomes : CopyLink(o)
    \/ \E i \in 1..MaxClips : downloadClip(i)
    \/ \E c \in 1..MaxClips, o \in FetchOutcomes : DownloadClipResolved(c, o)
    \/ Dismiss

SpecPlayer == InitPlayer /\ [][NextPlayer]_vars

---------------------------------------------------------------------------
(* Properties of the links *)

\* the link the specification gives for the identifier id and the start
\* time s: the watch page of id with a start offset of floor(s) seconds
CanonicalLink(id, s) ==
    Href(Url("https", "www.youtube.com", "/watch?v=", id), s \div Second)

\* C31: for every start time s >= 0 that is given, s = 0 and fractions
\* included, the link of a clip is the watch URL of the source identifier
\* with a start offset of floor(s) whole seconds; when no identifier can be
\* extracted from the URL, the link is the URL unchanged.
C31_ClipLinkHasFloorOffset ==
    youTubeLink.called =>
        youTubeLink.href =
            IF getYouTubeId(youTubeLink.youtubeUrl) = NoVideoId
            THEN Href(youTubeLink.youtubeUrl, NoOffset)
            ELSE CanonicalLink(getYouTubeId(youTubeLink.youtubeUrl),
                               youTubeLink.startTime)

\* the same for the start times other than 0
ClipLinkHasFloorOffsetAfterZero ==
    youTubeLink.called /\ youTubeLink.startTime # 0 =>
        youTubeLink.href = CanonicalLink(getYouTubeId(youTubeLink.youtubeUrl),
                                         youTubeLink.startTime)


\* a step of downloadClip that sends its request
ClipRequestSent == nExports' = nExports + 1 /\ pending' # pending

\* C34: the source identifier sent with every export request and used in
\* every link built for a clip is the identifier of the URL that was
\* submitted for the job whose clips are displayed: editing the input after
\* the job has completed never makes an export of the displayed clips use
\* another identifier, or none.
C34_ExportsUseSubmittedIdentifier ==
    /\ [](youTubeLink.called =>
             getYouTubeId(youTubeLink.href.url) = getYouTubeId(SubmittedUrl))
    /\ [](modal.text # MsgNoVideoId)
    /\ [][ClipRequestSent =>
             getYouTubeId(youtubeUrl) = getYouTubeId(SubmittedUrl)]_vars

\* the same while the input holds the URL that was submitted
SubmittedIdentifierWhileInputUntouched ==
    /\ [](youTubeLink.called /\ youTubeLink.youtubeUrl = SubmittedUrl =>
             getYouTubeId(youTubeLink.href.url) = getYouTubeId(SubmittedUrl))
    /\ [](youtubeUrl = SubmittedUrl => modal.text # MsgNoVideoId)

\* each way an export may come to use another identifier, or none
LinksUseSubmittedIdentifier ==
    youTubeLink.called =>
        getYouTubeId(youTubeLink.href.url) = getYouTubeId(SubmittedUrl)
RequestsUseSubmittedIdentifier ==
    [][ClipRequestSent => getYouTubeId(youtubeUrl) = getYouTubeId(SubmittedUrl)]_vars
ExportsFindIdentifier == modal.text # MsgNoVideoId


---------------------------------------------------------------------------
(* Further properties of the batch export *)

\* the links of one batch export that were opened: each at least a second
\* after the one before it
BatchLinksASecondApart ==
    \A i, j \in 1..Len(opened) :
        /\ i < j
        /\ opened[i].op = "batch" /\ opened[j].op = "batch"
        /\ opened[i].batch = opened[j].batch
        => opened[j].after - opened[i].after >= 1

\* the links yet to be opened: no two of them in the same second
PendingLinksASecondApart ==
    \A t, o \in timers : t # o => t.due # o.due

\* a step of downloadAllClips that sets the flag
BatchExportStarts == ~batchDownloading /\ batchDownloading'

\* C35: across any sequence of batch exports, two links opened by batch
\* export are never opened less than 1000 ms apart: while links of an
\* earlier batch are still to be opened the flag batchDownloading stays set
\* and a second batch export cannot start.
C35_BatchLinksNeverCloserThanASecond ==
    /\ [](BatchLinksASecondApart /\ PendingLinksASecondApart)
    /\ [](timers # {} => batchDownloading)
    /\ [][BatchExportStarts => timers = {}]_vars

\* each part on its own
FlagSetWhileLinksPending == timers # {} => batchDownloading
NoBatchStartsWhileLinksPending == [][BatchExportStarts => timers = {}]_vars


---------------------------------------------------------------------------
(* The exports and resetForm                                               *)

\* The clips are displayed; the user exports and may press Reset, after
\* which App no longer renders VideoPreview.  The buttons of VideoPreview
\* exist while it is rendered, and Reset can be pressed while no alert is
\* on screen; what a handler has started (its request, its alert, its
\* timers) goes on whether or not the component is still rendered.
NextUnmount ==
    \/ modal = NoAlert /\ resetForm
    \/ VideoPreviewMounted /\ \E i \in 1..MaxClips : downloadClip(i)
    \/ VideoPreviewMounted /\ downloadAllClips
    \/ VideoPreviewMounted /\ copyTimestamps
    \/ Dismiss
    \/ \E c \in 1..MaxClips, o \in FetchOutcomes : DownloadClipResolved(c, o)
    \/ \E b \in 1..MaxExports, o \in FetchOutcomes : DownloadAllResolved(b, o)
    \/ TimerFires
    \/ Tick
    \/ \E o \in WriteOutcomes : TimestampsWritten(o)

SpecUnmount == InitPlayer /\ [][NextUnmount]_vars

\* a step that opens a link of a batch export
BatchLinkOpened ==
    /\ Len(opened') = Len(opened) + 1
    /\ opened'[Len(opened')].op = "batch"

\* C36: after reset(), no link of a batch export that was started earlier
\* is opened any more: the opens still pending at that moment are
\* cancelled.
C36_NoBatchLinkAfterReset ==
    /\ [][~VideoPreviewMounted => ~BatchLinkOpened]_vars
    /\ [](~VideoPreviewMounted => timers = {})

\* the opens set for a later second when Reset is pressed
ResetCancelsPendingOpens ==
    [][VideoPreviewMounted /\ ~VideoPreviewMounted'
          => \A t \in timers' : t.due <= now]_vars

\* the links of a batch export that are opened after Reset
NoBatchLinkOpenedAfterReset ==
    [][~VideoPreviewMounted => ~BatchLinkOpened]_vars


---------------------------------------------------------------------------
(* The health check's interval                                             *)

\* setInterval(..., 30000): the seconds between two runs of the callback
HealthPeriod == 30
\* the runs of the callback the clock tells apart before it wraps around
MaxHealthTicks == 2

\* The effect has no dependencies: it runs once, after the first render,
\* and the callback it hands to setInterval reads the isConnected of that
\* render for as long as the component is mounted.
ClosureIsConnected == "null"

\* the interval callback runs: if (isConnected === false) testConnection().
\* The earlier revision sets no interval.
HealthTick ==
    /\ build = "App.tsx"
    /\ now' = (now + HealthPeriod) % (MaxHealthTicks * HealthPeriod)
    /\ healthReqs' = IF ClosureIsConnected = "false" THEN healthReqs + 1 ELSE healthReqs
    /\ UNCHANGED <<previewVars, playerVars, downloadingClips, batchDownloading,
                   copyingTimestamps, pending, modal, timers, opened, clipboard,
                   nExports, progresses, lastProgress, history, build, youtubeUrl,
                   isProcessing, jobId, jobStatus, result, error, isConnected,
                   interval, submitReqs, statusReqs, resultReqs, server, nSubmits,
                   nPolls, pollFailed>>

\* the form, the health check and its interval
NextHealth ==
    \/ HealthResponse
    \/ HealthTick
    \/ handleProcessVideo

\* every run of the callback that is due happens, and of the health checks
\* issued again and again one is answered by a backend that has become
\* available
SpecHealth ==
    /\ InitUrl
    /\ [][NextHealth]_vars
    /\ WF_vars(HealthTick)
    /\ SF_vars(HealthResponse /\ isConnected' = "true")

\* a run of the callback while the backend is marked unavailable issues a
\* health check
HealthCheckReissued ==
    [][isConnected = "false" /\ now' # now => healthReqs' = healthReqs + 1]_vars

\* while the backend is marked unavailable no submission request is issued
NoSubmitWhileUnavailable ==
    [][isConnected = "false" => nSubmits' = nSubmits /\ submitReqs' = submitReqs]_vars

\* once marked unavailable, the backend is eventually marked connected
EventuallyConnected ==
    (build = "App.tsx" /\ isConnected = "false") ~> (isConnected = "true")

\* C33: while the backend is marked unavailable after a failed health
\* check, the health check is issued again every 30 seconds, so that the
\* connection state eventually becomes connected once the backend is
\* available; while it is marked unavailable, a submit issues no
\* submission request.
C33_HealthCheckReissuedUntilConnected ==
    /\ EventuallyConnected
    /\ HealthCheckReissued
    /\ NoSubmitWhileUnavailable


---------------------------------------------------------------------------
(* Further properties of the controller *)

\* a step in which a submission request issued before the last reset
\* resolves
LateSubmitResponse == submitReqs'.beforeReset < submitReqs.beforeReset

\* idle since the reset: nothing submitted since, nothing set
IdleSinceReset ==
    /\ jobId = NoJob
    /\ jobStatus = NoStatus
    /\ result = NoResult
    /\ error = ""
    /\ ~isProcessing
    /\ interval = NoJob
    /\ submitReqs.sinceReset = 0

\* C38: if reset() is called while a submission request awaits its
\* response, the late response, successful or not, sets no job identifier,
\* sets no error message and starts no polling: the controller stays idle
\* until the next submit.
C38_LateSubmitResponseIgnored ==
    [][IdleSinceReset /\ LateSubmitResponse
          => UNCHANGED <<jobId, error, isProcessing, interval>>]_vars

\* the late response starts no polling
LateSubmitResponseStartsNoPolling ==
    [][IdleSinceReset /\ LateSubmitResponse => interval' = NoJob]_vars
\* the late response sets no job identifier
LateSubmitResponseSetsNoJob ==
    [][IdleSinceReset /\ LateSubmitResponse => jobId' = NoJob]_vars
\* the late response sets no error message
LateSubmitResponseSetsNoError ==
    [][IdleSinceReset /\ LateSubmitResponse => error' = ""]_vars


---------------------------------------------------------------------------
(* The controller under fairness                                           *)

\* a submission request, a status request, a result request resolves, one
\* way or the other
SubmitAnswered ==
    \E q \in SubmitTags :
        \/ \E hasJob \in BOOLEAN : SubmitSucceeded(q, hasJob)
        \/ \E data \in RejectBodies : SubmitRejected(q, data)
        \/ SubmitThrew(q)
StatusAnswered == \E r \in StatusReqKinds : StatusResponded(r) \/ StatusThrew(r)
ResultAnswered == \E j \in Jobs : ResultResponded(j) \/ ResultThrew(j)
\* a status request is answered "completed" or "failed"
StatusAnsweredEnded ==
    \E r \in StatusReqKinds : \E st \in StatusBodies(r) :
        st.status \in {"completed", "failed"} /\ StatusResponse(r, st)

\* Every request is eventually answered or fails, the interval callback
\* runs while the interval is set, and of the status answers to a job that
\* is polled again and again one reports completed or failed.  What the
\* user does is under no fairness.
SpecLive ==
    /\ Init
    /\ [][Next]_vars
    /\ WF_vars(SubmitAnswered)
    /\ WF_vars(PollTick)
    /\ WF_vars(StatusAnswered)
    /\ WF_vars(ResultAnswered)
    /\ SF_vars(StatusAnsweredEnded)

\* the behaviour has issued the status requests the model follows
PollsSpent == nPolls = MaxPolls

\* submitting or polling is over
Terminal == ~isProcessing

\* the submission was answered with success and no job identifier: nothing
\* is polled and no request is in flight
SubmittedWithoutJob ==
    /\ isProcessing
    /\ jobId = NoJob
    /\ interval = NoJob
    /\ submitReqs.sinceReset = 0 /\ submitReqs.beforeReset = 0
    /\ \A r \in StatusReqKinds : statusReqs[r] = 0

\* C32: under fairness, after every accepted submit the controller
\* eventually reaches a terminal state (completed with a Result, failed
\* with an error message, or idle): it never stays in submitting or polling
\* for ever, also when the submission response reports success without a
\* job identifier or a status response carries no recognised status.
C32_SubmitEventuallyTerminal ==
    isProcessing ~> (Terminal \/ PollsSpent)

\* the same, a submission answered with success and no job identifier
\* apart
TerminalUnlessSubmittedWithoutJob ==
    isProcessing ~> (Terminal \/ PollsSpent \/ SubmittedWithoutJob)

====
